---- MODULE Spec2Model ----
(***************************************************************************)
(* Model of the terminal file browser in src/main.cpp: the directory view  *)
(* of main() (current directory, listing, selection, back/forward stacks)  *)
(* and the pager of displayFileContent().  Strings are sequences of        *)
(* one-character strings, so that the path and label arithmetic of the     *)
(* code (concatenation, find_last_of, substr) is computed, not assumed.    *)
(***************************************************************************)
EXTENDS Integers, Sequences, FiniteSets, TLC

VARIABLES
    currentDir,    \* std::string currentDir            (main)
    contents,      \* std::vector<std::string> contents (main)
    choice,        \* int choice                        (main)
    backStack,     \* std::stack backStack, top first   (main)
    forwardStack,  \* std::stack forwardStack, top first(main)
    mode,          \* where the single thread blocks in getch()
    pager,         \* locals of displayFileContent while it runs
    ch             \* the key most recently returned by getch()

navVars == <<currentDir, contents, choice, backStack, forwardStack>>
vars == <<currentDir, contents, choice, backStack, forwardStack, mode, pager, ch>>

----------------------------------------------------------------------------
(* Bounds of the model *)

\* longest currentDir (in characters) the model lets Enter build
MaxPathLen == 6
\* deepest backStack the model lets Enter build
MaxHist == 3
\* most lines a viewed file holds
MaxLines == 4
\* most rows of the terminal (ncurses LINES)
MaxLINES == 5

----------------------------------------------------------------------------
(* Strings *)

\* std::string::npos; npos + 1 wraps to 0 in size_t arithmetic, as -1 + 1 does
npos == 0 - 1

\* s.find_last_of(c): 0-based index of the last c in s, npos when absent
find_last_of(s, c) ==
    LET I == {i \in 1..Len(s) : s[i] = c}
    IN  IF I = {} THEN npos
        ELSE (CHOOSE i \in I : \A j \in I : j <= i) - 1

\* s.find(c): 0-based index of the first c in s, npos when absent
find_first_of(s, c) ==
    LET I == {i \in 1..Len(s) : s[i] = c}
    IN  IF I = {} THEN npos
        ELSE (CHOOSE i \in I : \A j \in I : i <= j) - 1

\* s.substr(pos)
substr(s, pos) == SubSeq(s, pos + 1, Len(s))

\* s.substr(0, n)
prefix(s, n) == SubSeq(s, 1, n)

Slash == <<"/">>
Space == <<" ">>
Dot == <<".">>
DotDot == <<".", ".">>

----------------------------------------------------------------------------
(* The file system the program runs on: a fixed tree.  A node is the       *)
(* sequence of names from the root.                                        *)

nA == <<"a">>
nB == <<"b">>
nC == <<"c">>
nF == <<"f">>
nU == <<"u">>
nPQ == <<"p", " ", "q">>

Root == <<>>
DirA == <<nA>>
DirB == <<nA, nB>>
DirC == <<nA, nB, nC>>
FileF == <<nA, nF>>
FileU == <<nA, nU>>
FilePQ == <<nA, nPQ>>
FileE == <<nA, nB, nF>>

Dirs == {Root, DirA, DirB, DirC}
Nodes == Dirs \cup {FileF, FileU, FilePQ, FileE}
NoFile == <<<<"?">>, <<"?">>, <<"?">>, <<"?">>>>

\* st_mode: file type and permission bits of each node
AllBits == {"IRUSR", "IWUSR", "IXUSR", "IRGRP", "IWGRP", "IXGRP", "IROTH", "IWOTH", "IXOTH"}
StMode(node) ==
    IF node = DirC THEN [dir |-> TRUE, bits |-> {"IWUSR", "IXUSR"}]
    ELSE IF node = FileU THEN [dir |-> FALSE, bits |-> {"IWUSR"}]
    ELSE IF node \in Dirs THEN [dir |-> TRUE, bits |-> AllBits \ {"IWGRP", "IWOTH"}]
    ELSE [dir |-> FALSE, bits |-> {"IRUSR", "IWUSR", "IRGRP", "IROTH"}]

\* st_size as printed by operator<<
StSize(node) == IF node \in Dirs THEN <<"6", "4">> ELSE <<"7">>

\* strftime("%b %d %H:%M") of st_mtime
TimeBuf(node) == <<"J", "a", "n", " ", "0", "1", " ", "0", "9", ":", "3", "0">>

\* the names readdir() returns for a directory, in its order
ReadDir(node) ==
    <<Dot, DotDot>> \o
    (IF node = Root THEN <<nA>>
     ELSE IF node = DirA THEN <<nB, nF, nPQ, nU>>
     ELSE IF node = DirB THEN <<nC, nF>>
     ELSE <<>>)

Parent(node) == IF node = Root THEN Root ELSE SubSeq(node, 1, Len(node) - 1)

\* the components of a path string between its '/' characters
RECURSIVE SplitPath(_)
SplitPath(s) ==
    LET i == find_first_of(s, "/")
    IN  IF i = npos THEN <<s>>
        ELSE <<prefix(s, i)>> \o SplitPath(substr(s, i + 1))

\* path resolution from a node along components
RECURSIVE Walk(_, _)
Walk(node, comps) ==
    IF comps = <<>> THEN node
    ELSE IF node = NoFile \/ node \notin Dirs THEN NoFile
    ELSE LET c == Head(comps)
         IN  IF c = <<>> \/ c = Dot THEN Walk(node, Tail(comps))
             ELSE IF c = DotDot THEN Walk(Parent(node), Tail(comps))
             ELSE IF Append(node, c) \in Nodes THEN Walk(Append(node, c), Tail(comps))
             ELSE NoFile

\* stat(path): the node the path names, NoFile when stat fails.  Every path
\* the program builds is empty or begins with '/'.
Stat(path) ==
    IF path = <<>> \/ Head(path) # "/" THEN NoFile
    ELSE Walk(Root, SplitPath(path))

S_ISDIR(node) == node \in Dirs
S_ISREG(node) == node \in Nodes \ Dirs

----------------------------------------------------------------------------
(* Directory enumeration *)

formatPermissions(m) ==
    <<IF m.dir THEN "d" ELSE "-">> \o
    <<IF "IRUSR" \in m.bits THEN "r" ELSE "-">> \o
    <<IF "IWUSR" \in m.bits THEN "w" ELSE "-">> \o
    <<IF "IXUSR" \in m.bits THEN "x" ELSE "-">> \o
    <<IF "IRGRP" \in m.bits THEN "r" ELSE "-">> \o
    <<IF "IWGRP" \in m.bits THEN "w" ELSE "-">> \o
    <<IF "IXGRP" \in m.bits THEN "x" ELSE "-">> \o
    <<IF "IROTH" \in m.bits THEN "r" ELSE "-">> \o
    <<IF "IWOTH" \in m.bits THEN "w" ELSE "-">> \o
    <<IF "IXOTH" \in m.bits THEN "x" ELSE "-">>

\* one row of the listing: permissions, size, time, name
FormatEntry(node, fileName) ==
    formatPermissions(StMode(node)) \o Space \o StSize(node) \o Space
        \o TimeBuf(node) \o Space \o fileName

\* opendir succeeds on a directory the user may read
OpenDirOk(dirPath) ==
    LET d == Stat(dirPath)
    IN  d \in Dirs /\ "IRUSR" \in StMode(d).bits

RECURSIVE EntriesOf(_, _)
EntriesOf(dirPath, names) ==
    IF names = <<>> THEN <<>>
    ELSE LET fileName == Head(names)
             node == Stat(dirPath \o Slash \o fileName)
         IN  (IF node # NoFile THEN <<FormatEntry(node, fileName)>> ELSE <<>>)
                 \o EntriesOf(dirPath, Tail(names))

\* the d_name of each row getDirectoryContents returns, in the same order
RECURSIVE NamesOf(_, _)
NamesOf(dirPath, names) ==
    IF names = <<>> THEN <<>>
    ELSE LET fileName == Head(names)
             node == Stat(dirPath \o Slash \o fileName)
         IN  (IF node # NoFile THEN <<fileName>> ELSE <<>>)
                 \o NamesOf(dirPath, Tail(names))

EntryNames(dirPath) ==
    IF OpenDirOk(dirPath) THEN NamesOf(dirPath, ReadDir(Stat(dirPath)))
    ELSE <<>>

getDirectoryContents(dirPath) ==
    IF OpenDirOk(dirPath) THEN EntriesOf(dirPath, ReadDir(Stat(dirPath)))
    ELSE <<>>

isReadable(filePath) ==
    LET f == Stat(filePath)
    IN  f # NoFile /\ "IRUSR" \in StMode(f).bits

----------------------------------------------------------------------------
(* Directory view: the state of main() as a record, and its key handlers   *)

Nav == [currentDir |-> currentDir, contents |-> contents, choice |-> choice,
        backStack |-> backStack, forwardStack |-> forwardStack]

push(stack, x) == <<x>> \o stack
top(stack) == Head(stack)
pop(stack) == Tail(stack)

\* case KEY_UP
KeyUpNoFloor(n) == [n EXCEPT !.choice = n.choice - 1]
KeyUp(n) == [n EXCEPT !.choice = IF n.choice - 1 > 0 THEN n.choice - 1 ELSE 0]

\* case KEY_DOWN
KeyDown(n) ==
    [n EXCEPT !.choice = IF Len(n.contents) - 1 < n.choice + 1
                         THEN Len(n.contents) - 1 ELSE n.choice + 1]

\* contents = getDirectoryContents(currentDir); choice = 0;
ReloadKeepListing(n) == [n EXCEPT !.choice = 0]
Reload(n) == [n EXCEPT !.contents = getDirectoryContents(n.currentDir), !.choice = 0]

\* case KEY_LEFT
KeyLeftAlwaysReload(n) ==
    IF n.backStack # <<>>
    THEN Reload([n EXCEPT !.forwardStack = push(n.forwardStack, n.currentDir),
                          !.currentDir = top(n.backStack),
                          !.backStack = pop(n.backStack)])
    ELSE Reload(n)
KeyLeftNoPush(n) ==
    IF n.backStack # <<>>
    THEN Reload([n EXCEPT !.currentDir = top(n.backStack),
                          !.backStack = pop(n.backStack)])
    ELSE n
KeyLeft(n) ==
    IF n.backStack # <<>>
    THEN Reload([n EXCEPT !.forwardStack = push(n.forwardStack, n.currentDir),
                          !.currentDir = top(n.backStack),
                          !.backStack = pop(n.backStack)])
    ELSE n

\* case KEY_RIGHT
KeyRightNoPush(n) ==
    IF n.forwardStack # <<>>
    THEN Reload([n EXCEPT !.currentDir = top(n.forwardStack),
                          !.forwardStack = pop(n.forwardStack)])
    ELSE n
KeyRight(n) ==
    IF n.forwardStack # <<>>
    THEN Reload([n EXCEPT !.backStack = push(n.backStack, n.currentDir),
                          !.currentDir = top(n.forwardStack),
                          !.forwardStack = pop(n.forwardStack)])
    ELSE n

\* contents[choice].substr(contents[choice].find_last_of(" ") + 1)
SelectedOf(label) == substr(label, find_last_of(label, " ") + 1)

\* forwardStack = {}; backStack.push(currentDir); currentDir = dir;
DescendKeepForward(n, dir) ==
    [n EXCEPT !.backStack = push(n.backStack, n.currentDir), !.currentDir = dir]
Descend(n, dir) ==
    [n EXCEPT !.forwardStack = <<>>,
              !.backStack = push(n.backStack, n.currentDir),
              !.currentDir = dir]

\* case 10, after the name was read: the directory view Enter leaves
EnterNavReloadOnFail(n, selected) ==
    LET selectedPath == n.currentDir \o Slash \o selected
        fileStat == Stat(selectedPath)
    IN  IF fileStat = NoFile THEN Reload(n)
        ELSE IF S_ISDIR(fileStat)
        THEN IF selected = DotDot
             THEN LET lastSlash == find_last_of(n.currentDir, "/")
                  IN  IF lastSlash # npos
                      THEN Reload(Descend(n, prefix(n.currentDir, lastSlash)))
                      ELSE Reload(n)
             ELSE Reload(Descend(n, selectedPath))
        ELSE n
EnterNav(n, selected) ==
    LET selectedPath == n.currentDir \o Slash \o selected
        fileStat == Stat(selectedPath)
    IN  IF fileStat # NoFile /\ S_ISDIR(fileStat)
        THEN IF selected = DotDot
             THEN LET lastSlash == find_last_of(n.currentDir, "/")
                  IN  IF lastSlash # npos
                      THEN Reload(Descend(n, prefix(n.currentDir, lastSlash)))
                      ELSE Reload(n)
             ELSE Reload(Descend(n, selectedPath))
        ELSE n

\* case 10: whether Enter calls displayFileContent, and on which path
EnterOpensFile(n, selected) ==
    LET fileStat == Stat(n.currentDir \o Slash \o selected)
    IN  fileStat # NoFile /\ S_ISREG(fileStat)

----------------------------------------------------------------------------
(* Pager: the locals of displayFileContent as a record, and its handlers   *)

NoPager == [filePath |-> <<>>, totalLines |-> 0, visibleRows |-> 0,
            topLine |-> 0, currentLine |-> 0]

\* lines 152-156, for a file of n lines on a terminal of rows rows
PagerInit(filePath, n, rows) ==
    [filePath |-> filePath, totalLines |-> n, visibleRows |-> rows - 2,
     topLine |-> 0, currentLine |-> 0]

\* case KEY_UP of the pager
PagerKeyUpStuck(p) ==
    LET cl == IF p.currentLine > 1 THEN p.currentLine - 1 ELSE p.currentLine
    IN  [p EXCEPT !.currentLine = cl,
                  !.topLine = IF cl < p.topLine THEN p.topLine - 1 ELSE p.topLine]
PagerKeyUp(p) ==
    LET cl == IF p.currentLine > 0 THEN p.currentLine - 1 ELSE p.currentLine
    IN  [p EXCEPT !.currentLine = cl,
                  !.topLine = IF cl < p.topLine THEN p.topLine - 1 ELSE p.topLine]

\* case KEY_DOWN of the pager
PagerKeyDownAlwaysScroll(p) ==
    [p EXCEPT !.currentLine = IF p.currentLine < p.totalLines - 1
                              THEN p.currentLine + 1 ELSE p.currentLine,
              !.topLine = p.topLine + 1]
PagerKeyDownNoScroll(p) ==
    [p EXCEPT !.currentLine = IF p.currentLine < p.totalLines - 1
                              THEN p.currentLine + 1 ELSE p.currentLine]
PagerKeyDown(p) ==
    LET cl == IF p.currentLine < p.totalLines - 1
              THEN p.currentLine + 1 ELSE p.currentLine
    IN  [p EXCEPT !.currentLine = cl,
                  !.topLine = IF cl >= p.topLine + p.visibleRows
                              THEN p.topLine + 1 ELSE p.topLine]

----------------------------------------------------------------------------
(* The program *)

Keys == {"KEY_UP", "KEY_DOWN", "KEY_LEFT", "KEY_RIGHT", "ENTER", "ESC", "OTHER"}

\* names an out-of-range read of contents[choice] may yield
StrayNames == {<<>>, nA, DotDot}

SetNav(n) ==
    /\ currentDir' = n.currentDir
    /\ contents' = n.contents
    /\ choice' = n.choice
    /\ backStack' = n.backStack
    /\ forwardStack' = n.forwardStack

InBounds(n) == Len(n.currentDir) <= MaxPathLen /\ Len(n.backStack) <= MaxHist

\* getcwd() is any directory of the file system
Init ==
    /\ currentDir \in {<<"/">>, <<"/", "a">>, <<"/", "a", "/", "b">>,
                       <<"/", "a", "/", "b", "/", "c">>}
    /\ contents = getDirectoryContents(currentDir)
    /\ choice = 0
    /\ backStack = <<>>
    /\ forwardStack = <<>>
    /\ mode = "Browsing"
    /\ pager = NoPager
    /\ ch = "NONE"

BrowseUp ==
    /\ mode = "Browsing"
    /\ ch' = "KEY_UP"
    /\ SetNav(KeyUp(Nav))
    /\ UNCHANGED <<mode, pager>>

BrowseDown ==
    /\ mode = "Browsing"
    /\ ch' = "KEY_DOWN"
    /\ SetNav(KeyDown(Nav))
    /\ UNCHANGED <<mode, pager>>

BrowseLeft ==
    /\ mode = "Browsing"
    /\ ch' = "KEY_LEFT"
    /\ SetNav(KeyLeft(Nav))
    /\ UNCHANGED <<mode, pager>>

BrowseRight ==
    /\ mode = "Browsing"
    /\ ch' = "KEY_RIGHT"
    /\ SetNav(KeyRight(Nav))
    /\ UNCHANGED <<mode, pager>>

\* what follows the read of the selected name in case 10.  LINES is whatever
\* the terminal has, from one row up: line 153 takes LINES - 2 unguarded.
EnterWith(selected) ==
    /\ InBounds(EnterNav(Nav, selected))
    /\ SetNav(EnterNav(Nav, selected))
    /\ LET selectedPath == currentDir \o Slash \o selected
       IN  IF EnterOpensFile(Nav, selected) /\ isReadable(selectedPath)
           THEN \E opened \in BOOLEAN, n \in 0..MaxLines, rows \in 1..MaxLINES :
                   IF opened
                   THEN mode' = "Paging" /\ pager' = PagerInit(selectedPath, n, rows)
                   ELSE UNCHANGED <<mode, pager>>
           ELSE UNCHANGED <<mode, pager>>

\* case 10 with contents[choice] an element of contents
BrowseEnter ==
    /\ mode = "Browsing"
    /\ choice >= 0 /\ choice < Len(contents)
    /\ ch' = "ENTER"
    /\ EnterWith(SelectedOf(contents[choice + 1]))

\* case 10 with contents[choice] outside contents: undefined behaviour, which
\* faults or reads a stray string
BrowseEnterOutOfRange ==
    /\ mode = "Browsing"
    /\ ~(choice >= 0 /\ choice < Len(contents))
    /\ ch' = "ENTER"
    /\ \/ mode' = "Crashed" /\ UNCHANGED <<navVars, pager>>
       \/ \E stray \in StrayNames : EnterWith(stray)

BrowseEscape ==
    /\ mode = "Browsing"
    /\ ch' = "ESC"
    /\ mode' = "Exited"
    /\ UNCHANGED <<navVars, pager>>

BrowseOther ==
    /\ mode = "Browsing"
    /\ ch' = "OTHER"
    /\ UNCHANGED <<navVars, mode, pager>>

PagerUp ==
    /\ mode = "Paging"
    /\ ch' = "KEY_UP"
    /\ pager' = PagerKeyUp(pager)
    /\ UNCHANGED <<navVars, mode>>

PagerDownMovesChoice ==
    /\ mode = "Paging"
    /\ ch' = "KEY_DOWN"
    /\ pager' = PagerKeyDown(pager)
    /\ choice' = choice + 1
    /\ UNCHANGED <<currentDir, contents, backStack, forwardStack, mode>>
PagerDown ==
    /\ mode = "Paging"
    /\ ch' = "KEY_DOWN"
    /\ pager' = PagerKeyDown(pager)
    /\ UNCHANGED <<navVars, mode>>

\* case 27 of the pager: quit = true, then the loop ends and line 210 waits
PagerEscapeAtOnce ==
    /\ mode = "Paging"
    /\ ch' = "ESC"
    /\ mode' = "Browsing"
    /\ pager' = NoPager
    /\ UNCHANGED navVars
PagerEscape ==
    /\ mode = "Paging"
    /\ ch' = "ESC"
    /\ mode' = "Returning"
    /\ UNCHANGED <<navVars, pager>>

PagerOtherQuits ==
    /\ mode = "Paging"
    /\ ch' \in Keys \ {"KEY_UP", "KEY_DOWN", "ESC"}
    /\ mode' = "Returning"
    /\ UNCHANGED <<navVars, pager>>
PagerOther ==
    /\ mode = "Paging"
    /\ ch' \in Keys \ {"KEY_UP", "KEY_DOWN", "ESC"}
    /\ UNCHANGED <<navVars, mode, pager>>

\* getch() of line 210: any key, then displayFileContent returns
ReturnKey ==
    /\ mode = "Returning"
    /\ ch' \in Keys
    /\ mode' = "Browsing"
    /\ pager' = NoPager
    /\ UNCHANGED navVars

Next ==
    \/ BrowseUp
    \/ BrowseDown
    \/ BrowseLeft
    \/ BrowseRight
    \/ BrowseEnter
    \/ BrowseEnterOutOfRange
    \/ BrowseEscape
    \/ BrowseOther
    \/ PagerUp
    \/ PagerDown
    \/ PagerEscape
    \/ PagerOther
    \/ ReturnKey

Spec == Init /\ [][Next]_vars

----------------------------------------------------------------------------
(* Properties *)

TypeOK ==
    /\ mode \in {"Browsing", "Paging", "Returning", "Exited", "Crashed"}
    /\ ch \in Keys \cup {"NONE"}
    /\ choice \in Int

\* the directory view in the next state
NavNext == [currentDir |-> currentDir', contents |-> contents', choice |-> choice',
            backStack |-> backStack', forwardStack |-> forwardStack']

InRange == choice >= 0 /\ choice < Len(contents)

RECURSIVE LeftTimes(_, _)
LeftTimes(n, k) == IF k = 0 THEN n ELSE LeftTimes(KeyLeft(n), k - 1)

RECURSIVE RightTimes(_, _)
RightTimes(n, k) == IF k = 0 THEN n ELSE RightTimes(KeyRight(n), k - 1)

RECURSIVE DownTimes(_, _)
DownTimes(p, k) == IF k = 0 THEN p ELSE DownTimes(PagerKeyDown(p), k - 1)

RECURSIVE UpTimes(_, _)
UpTimes(p, k) == IF k = 0 THEN p ELSE UpTimes(PagerKeyUp(p), k - 1)

\* C1: while browsing a non-empty listing, the selection index is within
\* 0 .. len(listing)-1 after every event, whatever keys were pressed.
C1_SelectionBounds ==
    (mode = "Browsing" /\ contents # <<>>) =>
        (0 <= choice /\ choice <= Len(contents) - 1)

C1_Witness ==
    /\ mode = "Browsing"
    /\ ch = "KEY_DOWN"
    /\ backStack # <<>>
    /\ Len(contents) >= 3
    /\ choice = Len(contents) - 1

\* C2: from a browsing state at A with a subdirectory entry B selected, Enter
\* then Left gives currentDir = A with B on top of the forward stack, and a
\* further Right gives currentDir = B with the forward stack as it was right
\* after the Enter, which is empty.
C2_HistorySymmetry ==
    (mode = "Browsing" /\ InRange) =>
        LET selected == SelectedOf(contents[choice + 1])
            B == currentDir \o Slash \o selected
            s1 == EnterNav(Nav, selected)
            s2 == KeyLeft(s1)
            s3 == KeyRight(s2)
        IN  (Stat(B) \in Dirs /\ selected # DotDot) =>
                /\ s1.currentDir = B
                /\ s1.forwardStack = <<>>
                /\ s2.currentDir = currentDir
                /\ s2.forwardStack # <<>>
                /\ top(s2.forwardStack) = B
                /\ s3.currentDir = B
                /\ s3.forwardStack = s1.forwardStack
                /\ s3.backStack = s1.backStack

C2_Witness ==
    /\ mode = "Browsing"
    /\ ch = "KEY_LEFT"
    /\ currentDir = <<"/", "a">>
    /\ forwardStack = <<<<"/", "a", "/", "b">>>>
    /\ KeyRight(Nav).currentDir = <<"/", "a", "/", "b">>
    /\ KeyRight(Nav).forwardStack = <<>>

\* C3: every Enter that changes the directory leaves the forward stack empty,
\* so a Right pressed next changes nothing of the directory view.
C3_ForwardInvalidation ==
    [][(mode = "Browsing" /\ ch' = "ENTER" /\ currentDir' # currentDir) =>
          (forwardStack' = <<>> /\ KeyRight(NavNext) = NavNext)]_vars

\* a state reached by Left in which Enter descends and drops the forward stack
C3_Witness ==
    /\ mode = "Browsing"
    /\ ch = "KEY_LEFT"
    /\ forwardStack # <<>>
    /\ InRange
    /\ LET s1 == EnterNav(Nav, SelectedOf(contents[choice + 1]))
       IN  /\ InBounds(s1)
           /\ s1.currentDir # currentDir
           /\ s1.forwardStack = <<>>
           /\ KeyRight(s1) = s1

\* C4: in the pager with at least one visible row, the cursor line is inside
\* the window: topLine <= currentLine < topLine + visibleRows, from the start
\* of the session and after every key.
C4_PagerScroll ==
    (mode \in {"Paging", "Returning"} /\ pager.visibleRows >= 1) =>
        (pager.topLine <= pager.currentLine
            /\ pager.currentLine < pager.topLine + pager.visibleRows)

C4_Witness ==
    /\ mode = "Paging"
    /\ ch = "KEY_DOWN"
    /\ pager.visibleRows >= 1
    /\ pager.topLine > 0
    /\ pager.currentLine = pager.topLine + pager.visibleRows - 1

\* C5: a paging session leaves the directory view untouched: the Enter that
\* opens the pager, every key inside it, the Escape that ends it and the key
\* that returns to the directory view change none of currentDir, contents,
\* choice, backStack, forwardStack.
C5_PagerFrame ==
    [][(mode \in {"Paging", "Returning"} \/ mode' \in {"Paging", "Returning"}) =>
          UNCHANGED navVars]_vars

C5_Witness ==
    /\ mode = "Returning"
    /\ ch = "ESC"
    /\ choice > 0
    /\ backStack # <<>>
    /\ pager.currentLine > 0

\* C6 as stated: Escape in the pager puts the program back in the directory
\* view at once, so the next key is handled there.
C6_EscapeReturnsAtOnce ==
    [][(mode = "Paging" /\ ch' = "ESC") => mode' = "Browsing"]_vars

\* C6 amended: Escape in the pager ends the pager loop and leaves the program
\* waiting for one more key; that key, whichever it is, is consumed without
\* changing the directory view and only then is the program back in the
\* directory view, where a Down moves the selection.
C6_EscapeThenOneKey ==
    [][/\ (mode = "Paging" /\ ch' = "ESC") =>
              (mode' = "Returning" /\ UNCHANGED navVars)
       /\ (mode = "Returning") =>
              (mode' = "Browsing" /\ ch' \in Keys /\ UNCHANGED navVars)
       /\ (mode = "Browsing" /\ ch' = "KEY_DOWN") =>
              (mode' = "Browsing" /\ NavNext = KeyDown(Nav))]_vars

C6_Witness ==
    /\ mode = "Returning"
    /\ ch = "ESC"

\* C7: while browsing an empty listing the selection index is 0, whatever
\* Up and Down keys were pressed.
C7_EmptySelectionZero ==
    (mode = "Browsing" /\ contents = <<>>) => choice = 0

\* C8: while browsing an empty listing no key faults: Enter reads no element
\* outside the listing and changes nothing, and Left with a non-empty back
\* stack moves back.
C8_EmptyListingHarmless ==
    [][(mode = "Browsing" /\ contents = <<>>) =>
          /\ mode' # "Crashed"
          /\ (ch' = "ENTER" => (mode' = "Browsing" /\ UNCHANGED navVars))
          /\ (ch' = "KEY_LEFT" /\ backStack # <<>> =>
                 (currentDir' = top(backStack) /\ backStack' = pop(backStack)))]_vars

\* C9: from a browsing state with at least k entries on the back stack,
\* k Left then k Right restore currentDir and both stacks, for every k >= 1.
C9_BackForwardRoundTrip ==
    (mode = "Browsing") =>
        \A k \in 1..Len(backStack) :
            LET s == RightTimes(LeftTimes(Nav, k), k)
            IN  /\ LeftTimes(Nav, k).forwardStack # <<>>
                /\ s.currentDir = currentDir
                /\ s.backStack = backStack
                /\ s.forwardStack = forwardStack

C9_Witness ==
    /\ mode = "Browsing"
    /\ ch = "KEY_RIGHT"
    /\ Len(backStack) >= 2
    /\ forwardStack # <<>>
    /\ RightTimes(LeftTimes(Nav, 2), 2).currentDir = currentDir

\* C10: from the initial pager state of a file of N >= 1 lines with at least
\* one visible row, N-1 Down then N-1 Up end with currentLine = 0.
C10_PagerRoundTrip ==
    (mode = "Paging" /\ pager.totalLines >= 1 /\ pager.visibleRows >= 1
        /\ pager.topLine = 0 /\ pager.currentLine = 0) =>
        LET N == pager.totalLines
            down == DownTimes(pager, N - 1)
        IN  /\ down.currentLine = N - 1
            /\ UpTimes(down, N - 1).currentLine = 0

C10_Witness ==
    /\ mode = "Paging"
    /\ ch = "KEY_UP"
    /\ pager.totalLines = MaxLines
    /\ pager.visibleRows = 1
    /\ pager.topLine = 0
    /\ pager.currentLine = 0

Max0(x) == IF x > 0 THEN x ELSE 0

\* C11 as stated: in the pager, for every file and terminal height,
\* 0 <= topLine <= max(0, len(lines) - visibleRows) after every event.
C11_WindowBound ==
    (mode \in {"Paging", "Returning"}) =>
        (0 <= pager.topLine
            /\ pager.topLine <= Max0(pager.totalLines - pager.visibleRows))

\* C11 amended: the same bound on every terminal that leaves at least one
\* visible row (visibleRows = LINES - 2 >= 1).
C11_WindowBoundVisible ==
    (mode \in {"Paging", "Returning"} /\ pager.visibleRows >= 1) =>
        (0 <= pager.topLine
            /\ pager.topLine <= Max0(pager.totalLines - pager.visibleRows))

C11_Witness ==
    /\ mode = "Paging"
    /\ ch = "KEY_DOWN"
    /\ pager.visibleRows >= 1
    /\ pager.topLine > 0
    /\ pager.topLine = pager.totalLines - pager.visibleRows
    /\ pager.currentLine = pager.totalLines - 1

\* C12: in every reachable state currentDir is an absolute path: non-empty
\* and beginning with '/'.
C12_AbsolutePath ==
    currentDir # <<>> /\ Head(currentDir) = "/"

\* C13: in every browsing state whose currentDir holds no '/', Enter on ".."
\* leaves currentDir, contents, choice and both stacks unchanged.
C13_ParentlessNoOp ==
    (mode = "Browsing" /\ find_last_of(currentDir, "/") = npos) =>
        EnterNav(Nav, DotDot) = Nav

\* C14: Enter on an entry whose resolved path cannot be stat'ed changes
\* nothing: the directory view, the mode and the pager stay as they are.
C14_StatFailureNoOp ==
    [][(mode = "Browsing" /\ ch' = "ENTER" /\ InRange
          /\ Stat(currentDir \o Slash \o SelectedOf(contents[choice + 1])) = NoFile) =>
          (mode' = "Browsing" /\ UNCHANGED <<navVars, pager>>)]_vars

C14_Witness ==
    /\ mode = "Browsing"
    /\ ch = "ENTER"
    /\ InRange
    /\ choice > 0
    /\ Stat(currentDir \o Slash \o SelectedOf(contents[choice + 1])) = NoFile

\* C15: the listing shown is always the listing of the current directory, and
\* every step that changes currentDir replaces contents by the listing of the
\* new directory and resets choice to 0.
C15_ListingFollowsPath ==
    /\ [](contents = getDirectoryContents(currentDir))
    /\ [][currentDir' # currentDir =>
            (contents' = getDirectoryContents(currentDir') /\ choice' = 0)]_vars

C15_Witness ==
    /\ mode = "Browsing"
    /\ ch = "KEY_RIGHT"
    /\ backStack # <<>>
    /\ forwardStack # <<>>
    /\ contents # <<>>
    /\ contents = getDirectoryContents(currentDir)
    /\ contents # getDirectoryContents(top(backStack))
    /\ choice = 0

\* C16: Left with an empty back stack and Right with an empty forward stack
\* change nothing of the directory view.
C16_EmptyHistoryNoOp ==
    [][/\ (mode = "Browsing" /\ ch' = "KEY_LEFT" /\ backStack = <<>>) =>
              (mode' = "Browsing" /\ UNCHANGED navVars)
       /\ (mode = "Browsing" /\ ch' = "KEY_RIGHT" /\ forwardStack = <<>>) =>
              (mode' = "Browsing" /\ UNCHANGED navVars)]_vars

C16_Witness ==
    /\ mode = "Browsing"
    /\ ch = "KEY_LEFT"
    /\ backStack = <<>>
    /\ forwardStack = <<>>
    /\ choice > 0

\* C17: the program ends exactly on Escape in the directory view: that Escape
\* ends the run, Escape in the pager only ends the paging session, and no
\* other key in either mode ends the program.
C17_EscapeOnlyExit ==
    [][/\ (mode = "Browsing" /\ ch' = "ESC") => mode' = "Exited"
       /\ (mode = "Paging" /\ ch' = "ESC") =>
              (mode' \notin {"Exited", "Crashed"} /\ UNCHANGED navVars)
       /\ (mode' \in {"Exited", "Crashed"}) =>
              (mode = "Browsing" /\ ch' = "ESC")]_vars

\* C18: a key without a case is a no-op: any other key in the directory view,
\* and Left, Right, Enter or any other key in the pager, leave the directory
\* view, the pager and the mode unchanged.
C18_UnrecognizedNoOp ==
    [][((mode = "Browsing" /\ ch' = "OTHER")
          \/ (mode = "Paging" /\ ch' \in {"KEY_LEFT", "KEY_RIGHT", "ENTER", "OTHER"})) =>
          UNCHANGED <<navVars, pager, mode>>]_vars

C18_Witness ==
    /\ mode = "Paging"
    /\ ch = "ENTER"
    /\ pager.currentLine > 0
    /\ pager.topLine > 0

\* C19: for every row of the listing, the name Enter takes from the row (the
\* text after its last space) is the name the directory enumeration returned
\* for that row.
C19_NameRecovery ==
    (mode = "Browsing") =>
        /\ Len(contents) = Len(EntryNames(currentDir))
        /\ \A i \in 1..Len(contents) :
              SelectedOf(contents[i]) = EntryNames(currentDir)[i]

Reverse(s) == [i \in 1..Len(s) |-> s[Len(s) + 1 - i]]

\* visited paths in order: back stack bottom to top, current, forward stack
\* top to bottom
Timeline == Reverse(backStack) \o <<currentDir>> \o forwardStack
TimelineNext == Reverse(backStack') \o <<currentDir'>> \o forwardStack'

\* C20: Left and Right leave the timeline of visited paths unchanged and only
\* move the current position in it, so the two stacks keep their total size.
C20_TimelinePreserved ==
    [][(mode = "Browsing" /\ ch' \in {"KEY_LEFT", "KEY_RIGHT"}) =>
          /\ TimelineNext = Timeline
          /\ Len(backStack') + Len(forwardStack') = Len(backStack) + Len(forwardStack)
          /\ (backStack # <<>> /\ ch' = "KEY_LEFT" =>
                 Len(backStack') = Len(backStack) - 1)
          /\ (forwardStack # <<>> /\ ch' = "KEY_RIGHT" =>
                 Len(backStack') = Len(backStack) + 1)]_vars

C20_Witness ==
    /\ mode = "Browsing"
    /\ ch = "KEY_LEFT"
    /\ backStack # <<>>
    /\ Len(forwardStack) >= 2
    /\ Len(Timeline) = MaxHist + 1

====
